---------------------------- MODULE Spec2Model ----------------------------
(***************************************************************************)
(* A model of specialCliTools:                                             *)
(*   scripts/tools/docker_manager.py  - interactive container manager      *)
(*   scripts/utils/git_helpers.py     - working-tree status reader         *)
(*                                                                         *)
(* The module holds five state machines over disjoint groups of variables: *)
(*   SpecSession  main() and DockerContainerManager.container_actions      *)
(*   SpecStats    DockerContainerManager.show_stats                        *)
(*   SpecBytes    DockerContainerManager._format_bytes                     *)
(*   SpecGit      get_git_status, check_git_changes, print_git_status      *)
(*   SpecInfo     DockerContainerManager.show_container_info               *)
(* Each specification leaves the variables of the others at their idle     *)
(* values.                                                                 *)
(***************************************************************************)
EXTENDS Integers, Sequences, FiniteSets, TLC

VARIABLES
    \* ---- interactive session (docker_manager.py main, container_actions)
    pc,          \* position of the single thread of main()
    running,     \* the daemon's set of running containers
    containers,  \* main()'s local `containers`: the last listing returned
    selected,    \* the `container` argument of container_actions (0: none)
    line,        \* the line input() has just returned at a numbered prompt
    out,         \* what the last step printed, in order
    calls,       \* the runtime-client calls the last step made, in order
    fault,       \* the outcome the runtime gave the last step's call
    \* ---- _format_bytes
    bpc,         \* "call" before the call, "returned" after it
    bytesIn,     \* the argument bytes_value
    bytesOut,    \* the string returned: its number, in hundredths, and unit
    \* ---- show_stats
    spc,         \* "call" before the call, "returned" after it
    statsIn,     \* what container.stats(stream=False) answers
    statsOut,    \* what show_stats printed
    \* ---- git_helpers.py
    gpc,         \* "call", then "returned" or "raised"
    gitFn,       \* the function called
    gitEnv,      \* what the three invocations of git would answer
    gitRet,      \* the value returned
    gitOut,      \* what was printed
    \* ---- show_container_info
    ipc,         \* "call", then "returned" or "raised"
    attrs,       \* container.attrs
    infoOut      \* what show_container_info printed

sessionVars == <<pc, running, containers, selected, line, out, calls, fault>>

bytesVars == <<bpc, bytesIn, bytesOut>>

statsVars == <<spc, statsIn, statsOut>>

gitVars == <<gpc, gitFn, gitEnv, gitRet, gitOut>>

infoVars == <<ipc, attrs, infoOut>>

vars == <<sessionVars, bytesVars, statsVars, gitVars, infoVars>>

\* what a step of one machine leaves alone: the variables of the others
SessionFrame == UNCHANGED <<bytesVars, statsVars, gitVars, infoVars>>

BytesFrame == UNCHANGED <<sessionVars, statsVars, gitVars, infoVars>>

StatsFrame == UNCHANGED <<sessionVars, bytesVars, gitVars, infoVars>>

GitFrame == UNCHANGED <<sessionVars, bytesVars, statsVars, infoVars>>

InfoFrame == UNCHANGED <<sessionVars, bytesVars, statsVars, gitVars>>

-----------------------------------------------------------------------------
(* Bounds of the model *)

\* containers the daemon may run are numbered 1..NumContainers
NumContainers == 2

\* input lines have at most MaxLen characters
MaxLen == 2

\* byte counts reach MaxTB whole terabytes, and 1023 and 1024 of them
MaxTB == 2

\* the counters of a resource snapshot run from 0 to MaxCounter (CPU
\* counters in ticks, memory in quarters of a megabyte)
MaxCounter == 2

\* the output of one invocation of git has at most MaxOut characters
MaxOut == 3

-----------------------------------------------------------------------------
(* Input lines: sequences of characters *)

DigitChars == {"0", "1", "2", "3", "4", "5", "6", "7"}

Alphabet == DigitChars \cup {"q", "Q", "-", "+", " ", "a"}

Lines == UNION {[1..n -> Alphabet] : n \in 0..MaxLen}

DigitVal(c) ==
    CASE c = "0" -> 0 [] c = "1" -> 1 [] c = "2" -> 2 [] c = "3" -> 3
      [] c = "4" -> 4 [] c = "5" -> 5 [] c = "6" -> 6 [] c = "7" -> 7

\* str.lower(): of the alphabet only "Q" has a lower-case form
Lower(s) == [i \in 1..Len(s) |-> IF s[i] = "Q" THEN "q" ELSE s[i]]

RECURSIVE StripLeft(_)
StripLeft(s) ==
    IF s # <<>> /\ Head(s) = " " THEN StripLeft(Tail(s)) ELSE s

RECURSIVE StripRight(_)
StripRight(s) ==
    IF s # <<>> /\ s[Len(s)] = " "
    THEN StripRight(SubSeq(s, 1, Len(s) - 1))
    ELSE s

\* str.strip()
Strip(s) == StripRight(StripLeft(s))

RECURSIVE DecimalValue(_)
DecimalValue(ds) ==
    IF ds = <<>> THEN 0
    ELSE 10 * DecimalValue(SubSeq(ds, 1, Len(ds) - 1)) + DigitVal(ds[Len(ds)])

\* int(s): surrounding whitespace is stripped, one sign may lead, and the
\* rest must be a non-empty run of digits; anything else is a ValueError.
ValueError == [ok |-> FALSE, val |-> 0]

ParseInt(s) ==
    LET t      == Strip(s)
        signed == t # <<>> /\ Head(t) \in {"-", "+"}
        body   == IF signed THEN Tail(t) ELSE t
    IN  IF body = <<>> \/ (\E i \in 1..Len(body) : body[i] \notin DigitChars)
        THEN ValueError
        ELSE [ok |-> TRUE,
              val |-> IF signed THEN 0 - DecimalValue(body)
                      ELSE DecimalValue(body)]


-----------------------------------------------------------------------------
(* The runtime daemon, as the session sees it *)

Containers == 1..NumContainers

\* client.containers.list(): the running containers, in the daemon's order
RECURSIVE Listing(_, _)
Listing(r, i) ==
    IF i > NumContainers THEN <<>>
    ELSE (IF i \in r THEN <<i>> ELSE <<>>) \o Listing(r, i + 1)

\* what a call on the runtime client may do: succeed, raise
\* docker.errors.APIError (NotFound for a vanished container is one), or
\* raise any other exception
Outcomes == {"ok", "api_error", "other_error"}

\* a printed item: its kind, a number it shows, and for the listing table
\* its rows (the containers, in order)
Msg(t, a) == [tag |-> t, arg |-> a, rows |-> <<>>]

TableMsg(lst) == [tag |-> "table", arg |-> Len(lst), rows |-> lst]

Call(op, c) == [op |-> op, on |-> c]

\* the seven entries of the `actions` table of container_actions
ActionName(n) ==
    CASE n = 1 -> "stop" [] n = 2 -> "restart" [] n = 3 -> "logs"
      [] n = 4 -> "stats" [] n = 5 -> "exec" [] n = 6 -> "info"
      [] n = 7 -> "back"

ActionKeys == 1..7

\* the panel and the seven menu lines container_actions prints at the top
\* of every iteration of its loop
MenuScreen(c) == <<Msg("panel", c), Msg("menu", 0)>>

-----------------------------------------------------------------------------
(* main(): the outer loop *)

SessionInit ==
    /\ pc = "listing"
    /\ running \in SUBSET Containers
    /\ containers = <<>>
    /\ selected = 0
    /\ line = <<>>
    /\ out = <<>>
    /\ calls = <<>>
    /\ fault = "none"

\* line 297 without its lower bound: `if container_index < len(containers)`
IndexInRangeNoLowerBound(container_index, lst) == container_index < Len(lst)

\* the check of line 297 on container_index = int(choice) - 1
IndexInRange(container_index, lst) ==
    0 <= container_index /\ container_index < Len(lst)

\* a subscript that counts from the wrong end of the list
PyIndexFromEnd(lst, i) ==
    IF 0 <= i /\ i < Len(lst) THEN lst[Len(lst) - i] ELSE 0

\* lst[i] of a Python list: 0-based, a negative index counts from the end.
\* An index outside -len..len-1 raises IndexError; the guard of line 297
\* keeps the subscript of line 298 inside 0..len-1, so that case yields
\* no container (0) here.
PyIndex(lst, i) ==
    IF 0 <= i /\ i < Len(lst) THEN lst[i + 1]
    ELSE IF 0 - Len(lst) <= i /\ i < 0 THEN lst[Len(lst) + i + 1]
    ELSE 0

\* docker_manager.py 281-289 and 33-57: clear, title, list_containers(),
\* which asks the daemon for the list and then for the image of every
\* container listed.  No handler encloses the call at line 285: a request
\* that raises leaves main() and ends the process.
ListContainers ==
    /\ pc = "listing"
    /\ LET lst    == Listing(running, 1)
           images == [i \in 1..Len(lst) |-> Call("image", lst[i])]
       IN  \/ \* the list request and every image lookup answer
              /\ fault' = "ok"
              /\ calls' = <<Call("list", 0)>> \o images
              /\ containers' = lst
              /\ IF lst = <<>>
                 THEN /\ pc' = "refresh_prompt"
                      /\ out' = <<Msg("clear", 0), Msg("title", 0),
                                  Msg("warn_none", 0)>>
                 ELSE /\ pc' = "select_prompt"
                      /\ out' = <<Msg("clear", 0), Msg("title", 0),
                                  TableMsg(lst)>>
           \/ \* the list request (n = 0) or the n-th image lookup raises
              /\ \E n \in 0..Len(lst) :
                    calls' = <<Call("list", 0)>> \o SubSeq(images, 1, n)
              /\ fault' = "api_error"
              /\ pc' = "crashed"
              /\ out' = <<Msg("clear", 0), Msg("title", 0)>>
              /\ UNCHANGED containers
    /\ line' = <<>>
    /\ UNCHANGED <<running, selected>>
    /\ SessionFrame

\* docker_manager.py 287-289: "Press Enter to refresh or 'q' to quit"
RefreshPrompt ==
    /\ pc = "refresh_prompt"
    /\ \E l \in Lines :
         pc' = IF Lower(l) = <<"q">> THEN "exited" ELSE "listing"
    /\ out' = <<>>
    /\ calls' = <<>>
    /\ fault' = "none"
    /\ UNCHANGED <<running, containers, selected, line>>
    /\ SessionFrame

\* docker_manager.py 292: input() returns a line at the selection prompt
ReadSelection ==
    /\ pc = "select_prompt"
    /\ \E l \in Lines : line' = l
    /\ pc' = "select_got"
    /\ out' = <<>>
    /\ calls' = <<>>
    /\ fault' = "none"
    /\ UNCHANGED <<running, containers, selected>>
    /\ SessionFrame

\* docker_manager.py 293-304 and, on a valid selection, 59-78: the panel
\* and the menu of container_actions are printed before its first prompt
SelectContainer ==
    /\ pc = "select_got"
    /\ LET n == ParseInt(line) IN
       IF Lower(line) = <<"q">>
       THEN /\ pc' = "exited"
            /\ out' = <<>>
            /\ UNCHANGED selected
       ELSE IF ~n.ok
       THEN /\ pc' = "select_err_pause"
            /\ out' = <<Msg("err_number", 0)>>
            /\ UNCHANGED selected
       ELSE IF IndexInRange(n.val - 1, containers)
       THEN /\ pc' = "menu"
            /\ selected' = PyIndex(containers, n.val - 1)
            /\ out' = MenuScreen(PyIndex(containers, n.val - 1))
       ELSE /\ pc' = "select_err_pause"
            /\ out' = <<Msg("err_invalid_container", 0)>>
            /\ UNCHANGED selected
    /\ line' = IF pc' = "menu" THEN <<>> ELSE line
    /\ calls' = <<>>
    /\ fault' = "none"
    /\ UNCHANGED <<running, containers>>
    /\ SessionFrame

\* docker_manager.py 301, 304: "Press Enter to continue...", then the top
\* of the outer loop
SelectErrPause ==
    /\ pc = "select_err_pause"
    /\ pc' = "listing"
    /\ out' = <<>>
    /\ calls' = <<>>
    /\ fault' = "none"
    /\ line' = <<>>
    /\ UNCHANGED <<running, containers, selected>>
    /\ SessionFrame

-----------------------------------------------------------------------------
(* container_actions(): the inner loop *)

\* docker_manager.py 81: input() returns a line at "Select action (1-7)"
ReadChoice ==
    /\ pc = "menu"
    /\ \E l \in Lines : line' = l
    /\ pc' = "menu_got"
    /\ out' = <<>>
    /\ calls' = <<>>
    /\ fault' = "none"
    /\ UNCHANGED <<running, containers, selected>>
    /\ SessionFrame

\* the runtime's answers to the call behind each action: container.attrs
\* is a dictionary read, which raises KeyError on a missing field and
\* never an APIError
ActionOutcomes(n) == IF n = 6 THEN {"ok", "other_error"} ELSE Outcomes

\* container_actions without its last clause, `except Exception`
CatchesOnlyAPIError(res) == res = "api_error"

\* the except clauses of container_actions (lines 99-104): APIError has
\* its own clause and `except Exception` takes everything else
Catches(res) == res \in {"api_error", "other_error"}

\* what the clause that catches `res` prints (lines 101-104)
CaughtBy(res) ==
    IF res = "api_error" THEN <<Msg("err_api", 0)>>
    ELSE <<Msg("err_generic", 0)>>

\* what action n prints when the runtime answers res (lines 62-67, 94-97)
ActionOutput(n, res) ==
    CASE n \in {1, 2} ->
           IF res = "ok" THEN <<Msg("success", n)>> ELSE CaughtBy(res)
      [] n = 3 ->
           IF res = "ok" THEN <<Msg("logs", 0)>> ELSE CaughtBy(res)
      [] n = 4 ->
           \* show_stats catches everything itself (lines 185-193); `stats`
           \* is unbound when container.stats() raised, so the key dump
           \* fails too
           IF res = "ok" THEN <<Msg("stats_table", 0)>>
           ELSE <<Msg("err_stats", 0), Msg("stats_keys", 0),
                  Msg("err_stats_keys", 0)>>
      [] n = 6 ->
           IF res = "ok" THEN <<Msg("info_debug", 0), Msg("info_table", 0)>>
           ELSE <<Msg("info_debug", 0)>> \o CaughtBy(res)

\* the daemon's running set after action n on container c answered res
RunningAfter(n, c, res) ==
    IF res # "ok" THEN running
    ELSE IF n = 1 THEN running \ {c}
    ELSE IF n = 2 THEN running \cup {c}
    ELSE running

\* docker_manager.py 82-104, up to the next input(): the empty line and
\* the unknown number `continue` to the menu, 7 breaks out to the top of
\* the outer loop, 5 prompts for a command, and every other action runs
\* and ends at "Press Enter to continue..."
MenuChoice ==
    /\ pc = "menu_got"
    /\ LET n == ParseInt(line) IN
       IF Strip(line) = <<>>
       THEN /\ pc' = "menu"
            /\ out' = MenuScreen(selected)
            /\ calls' = <<>>
            /\ fault' = "none"
            /\ UNCHANGED <<running, selected>>
       ELSE IF ~n.ok
       THEN /\ pc' = "action_pause"
            /\ out' = <<Msg("err_number", 0)>>
            /\ calls' = <<>>
            /\ fault' = "none"
            /\ UNCHANGED <<running, selected>>
       ELSE IF n.val \notin ActionKeys
       THEN /\ pc' = "menu"
            /\ out' = <<Msg("err_invalid_choice", 0)>> \o MenuScreen(selected)
            /\ calls' = <<>>
            /\ fault' = "none"
            /\ UNCHANGED <<running, selected>>
       ELSE IF n.val = 7
       THEN /\ pc' = "listing"
            /\ selected' = 0
            /\ out' = <<>>
            /\ calls' = <<>>
            /\ fault' = "none"
            /\ UNCHANGED running
       ELSE IF n.val = 5
       THEN /\ pc' = "exec_prompt"
            /\ out' = <<>>
            /\ calls' = <<>>
            /\ fault' = "none"
            /\ UNCHANGED <<running, selected>>
       ELSE \E res \in ActionOutcomes(n.val) :
            /\ pc' = IF res = "ok" \/ n.val = 4 \/ Catches(res)
                     THEN "action_pause" ELSE "crashed"
            /\ fault' = res
            /\ calls' = <<Call(ActionName(n.val), selected)>>
            /\ out' = ActionOutput(n.val, res)
            /\ running' = RunningAfter(n.val, selected, res)
            /\ UNCHANGED selected
    /\ line' = IF pc' \in {"menu", "listing"} THEN <<>> ELSE line
    /\ UNCHANGED containers
    /\ SessionFrame

\* docker_manager.py 195-206: the command line is read and run; an
\* APIError is caught here, anything else by container_actions
ExecCommand ==
    /\ pc = "exec_prompt"
    /\ \E res \in Outcomes :
         /\ fault' = res
         /\ out' = CASE res = "ok" -> <<Msg("exec_output", 0)>>
                     [] res = "api_error" -> <<Msg("err_exec", 0)>>
                     [] OTHER -> CaughtBy(res)
         /\ pc' = IF res \in {"ok", "api_error"} \/ Catches(res)
                  THEN "action_pause" ELSE "crashed"
    /\ calls' = <<Call("exec", selected)>>
    /\ UNCHANGED <<running, containers, selected, line>>
    /\ SessionFrame

\* the pause without os.system('clear')
ActionPauseNoClear ==
    /\ pc = "action_pause"
    /\ pc' = "menu"
    /\ out' = MenuScreen(selected)
    /\ calls' = <<>>
    /\ fault' = "none"
    /\ line' = <<>>
    /\ UNCHANGED <<running, containers, selected>>
    /\ SessionFrame

\* docker_manager.py 106-107 and 72-78: Enter, clear, the menu again
ActionPause ==
    /\ pc = "action_pause"
    /\ pc' = "menu"
    /\ out' = <<Msg("clear", 0)>> \o MenuScreen(selected)
    /\ calls' = <<>>
    /\ fault' = "none"
    /\ line' = <<>>
    /\ UNCHANGED <<running, containers, selected>>
    /\ SessionFrame

-----------------------------------------------------------------------------
(* The world outside the session: containers start and stop *)

SessionLive == pc \notin {"exited", "crashed"}

EnvStart ==
    /\ SessionLive
    /\ \E c \in Containers \ running : running' = running \cup {c}
    /\ UNCHANGED <<pc, containers, selected, line, out, calls, fault>>
    /\ SessionFrame

EnvStop ==
    /\ SessionLive
    /\ \E c \in running : running' = running \ {c}
    /\ UNCHANGED <<pc, containers, selected, line, out, calls, fault>>
    /\ SessionFrame

SessionIdle ==
    /\ pc = "idle"
    /\ running = {}
    /\ containers = <<>>
    /\ selected = 0
    /\ line = <<>>
    /\ out = <<>>
    /\ calls = <<>>
    /\ fault = "none"

SessionNext ==
    \/ ListContainers
    \/ RefreshPrompt
    \/ ReadSelection
    \/ SelectContainer
    \/ SelectErrPause
    \/ ReadChoice
    \/ MenuChoice
    \/ ExecCommand
    \/ ActionPause
    \/ EnvStart
    \/ EnvStop


-----------------------------------------------------------------------------
(* Properties of the session *)

Failed == {"api_error", "other_error"}

ErrorTags == {"err_number", "err_invalid_container", "err_invalid_choice",
              "err_api", "err_generic", "err_exec", "err_stats",
              "err_stats_keys"}

\* the positions of the thread inside container_actions
InnerPcs == {"menu", "menu_got", "exec_prompt", "action_pause"}

\* the number typed at the action menu, 0 when the line is no number
Chosen == IF ParseInt(line).ok THEN ParseInt(line).val ELSE 0

\* s ends with t
EndsWith(s, t) ==
    Len(t) <= Len(s) /\ SubSeq(s, Len(s) - Len(t) + 1, Len(s)) = t

\* C1: at the selection prompt over a listing of N containers, a line is
\* accepted (the action menu is entered) exactly when it parses as an
\* integer k with 1 <= k <= N; every other line but the quit sentinel gets
\* an error message and no runtime call, changes nothing of the session,
\* and leads through the pause back to the top of the outer loop, which
\* prompts again once the listing is shown.
C1_SelectionValidated ==
    /\ [][(pc = "select_got" /\ pc' # pc) =>
            LET n     == ParseInt(line)
                valid == n.ok /\ 1 <= n.val /\ n.val <= Len(containers)
                quit  == Lower(line) = <<"q">>
            IN  /\ (pc' = "menu") <=> valid
                /\ (~valid /\ ~quit) =>
                     /\ pc' = "select_err_pause"
                     /\ out' \in {<<Msg("err_number", 0)>>,
                                  <<Msg("err_invalid_container", 0)>>}
                     /\ calls' = <<>>
                     /\ running' = running
                     /\ containers' = containers
                     /\ selected' = selected]_vars
    /\ [][(pc = "select_err_pause" /\ pc' # pc) => pc' = "listing"]_vars
    /\ [][(pc = "listing" /\ pc' # pc /\ fault' = "ok" /\ containers' # <<>>)
            => pc' = "select_prompt"]_vars

\* the line N+1 was typed over a listing of N containers and refused
C1_Witness ==
    /\ pc = "select_err_pause"
    /\ ParseInt(line).ok
    /\ ParseInt(line).val = Len(containers) + 1
    /\ out = <<Msg("err_invalid_container", 0)>>
    /\ calls = <<>>

\* C2: an action of the menu whose runtime call fails is caught: the step
\* ends at the pause of container_actions with an error message as the
\* last thing printed, on the same container, and the pause leads back to
\* the action menu of that container; the session does not end.
C2_ActionFailureCaught ==
    /\ [](pc = "action_pause" /\ fault \in Failed =>
            /\ out # <<>>
            /\ out[Len(out)].tag \in ErrorTags
            /\ selected # 0)
    /\ [][(pc \in {"menu_got", "exec_prompt"} /\ fault' \in Failed) =>
            /\ pc' = "action_pause"
            /\ selected' = selected]_vars
    /\ [][(pc = "action_pause" /\ fault \in Failed /\ pc' # pc) =>
            /\ pc' = "menu"
            /\ selected' = selected
            /\ EndsWith(out', MenuScreen(selected))]_vars

\* show info raised a non-API exception and the loop reported it
C2_Witness ==
    /\ pc = "action_pause"
    /\ fault = "other_error"
    /\ calls = <<Call("info", selected)>>
    /\ out[Len(out)].tag = "err_generic"

\* C3: once connected, no fault escapes the interactive loop: the session
\* never ends by an unhandled exception.
C3_NoFaultEscapes == pc # "crashed"

\* C9: each of the actions 1-6 ends at the pause, after which the screen is
\* cleared and the menu of the same container is shown again; the inner
\* loop is left only by choice 7, and the outer loop then asks the daemon
\* for a fresh listing.
C9_MenuRedisplayed ==
    /\ [][(pc = "menu_got" /\ pc' # pc /\ Chosen \in {1, 2, 3, 4, 6})
            => pc' = "action_pause"]_vars
    /\ [][(pc = "menu_got" /\ pc' # pc /\ Chosen = 5)
            => pc' = "exec_prompt"]_vars
    /\ [][(pc = "exec_prompt" /\ pc' # pc) => pc' = "action_pause"]_vars
    /\ [][(pc = "action_pause" /\ pc' # pc) =>
            /\ pc' = "menu"
            /\ selected' = selected
            /\ out' = <<Msg("clear", 0)>> \o MenuScreen(selected)]_vars
    /\ [][(pc \in InnerPcs /\ pc' \notin InnerPcs) =>
            /\ pc = "menu_got"
            /\ Chosen = 7
            /\ pc' = "listing"]_vars
    /\ [][(pc = "listing" /\ pc' # pc) =>
            /\ calls' # <<>>
            /\ calls'[1] = Call("list", 0)
            /\ (fault' = "ok" => containers' = Listing(running, 1))]_vars

\* the menu of the selected container, shown on a cleared screen
C9_Witness ==
    /\ pc = "menu"
    /\ selected # 0
    /\ out = <<Msg("clear", 0)>> \o MenuScreen(selected)

\* C10: the listing whose table is on the screen at the selection prompt
\* is the one the selection indexes; selecting k enters the menu of its
\* k-th row; inside the menu the container never changes, each chosen
\* action makes exactly one runtime call and makes it on that container,
\* and no other container's running state is touched.
C10_ActsOnSelectedOnly ==
    /\ [](pc = "select_prompt" =>
            /\ out # <<>>
            /\ out[Len(out)].tag = "table"
            /\ out[Len(out)].rows = containers)
    /\ [][(pc \in {"select_prompt", "select_got"}) =>
            containers' = containers]_vars
    /\ [][(pc = "select_got" /\ pc' = "menu") =>
            /\ selected' = containers[ParseInt(line).val]
            /\ out' = MenuScreen(containers[ParseInt(line).val])]_vars
    /\ [][(pc \in InnerPcs /\ pc' \in InnerPcs) => selected' = selected]_vars
    /\ [](pc = "action_pause" /\ Chosen \in 1..6 =>
            calls = <<Call(ActionName(Chosen), selected)>>)
    /\ [](pc \in InnerPcs \ {"action_pause"} => calls = <<>>)
    /\ [][(pc \in {"menu_got", "exec_prompt"} /\ pc' # pc) =>
            /\ running' \ {selected} = running \ {selected}
            /\ (running' # running => calls' \in {<<Call("stop", selected)>>,
                                        <<Call("restart", selected)>>})]_vars

\* the second row of a two-row listing was selected and stopped, and the
\* first row still runs
C10_Witness ==
    /\ pc = "action_pause"
    /\ Len(containers) = 2
    /\ selected = containers[2]
    /\ calls = <<Call("stop", selected)>>
    /\ fault = "ok"
    /\ containers[1] \in running
    /\ selected \notin running

-----------------------------------------------------------------------------
(* _format_bytes *)

(***************************************************************************)
(* A byte count n is held as five base-1024 limbs, lowest first:           *)
(*   n = b[1] + b[2]*1024 + b[3]*1024^2 + b[4]*1024^3 + b[5]*1024^4        *)
(* with b[1..4] in 0..1023 and b[5] any natural number.  After k passes of *)
(* `bytes_value /= 1024` the value is n / 1024^k: limbs k+1.. are its      *)
(* integer part and limbs 1..k its fraction.  A float holds n / 1024^k     *)
(* exactly for n < 2^53, so the limbs are the float's value, not an        *)
(* approximation of it.                                                    *)
(***************************************************************************)
Base == 1024

Units == <<"B", "KB", "MB", "GB", "TB">>

LimbSamples == {0, 1, 128, 384, 512, 1018, 1019, 1023}

TopSamples == (0..MaxTB) \cup {Base - 1, Base}

ByteCounts ==
    {<<a, b, c, d, t>> : a \in LimbSamples, b \in LimbSamples,
                         c \in {0, 1, 1023}, d \in {0, 1023},
                         t \in TopSamples}

\* bytes_value <= 1024 after k divisions, the comparison of line 272 with
\* <= in place of <
AtMost1024(b, k) ==
    \/ \A i \in (k + 2)..5 : b[i] = 0
    \/ /\ \A i \in (k + 3)..5 : b[i] = 0
       /\ b[k + 2] = 1
       /\ \A i \in 1..(k + 1) : b[i] = 0

\* line 272: bytes_value < 1024 after k divisions
LessThan1024(b, k) == \A i \in (k + 2)..5 : b[i] = 0

\* the integer part of n / 1024^k
RECURSIVE IntPart(_, _)
IntPart(b, k) ==
    IF k >= 5 THEN 0
    ELSE IF k = 4 THEN b[5]
    ELSE b[k + 1] + Base * IntPart(b, k + 1)

\* 100 * (the fraction of n / 1024^k), limb by limb from the lowest:
\* the carry out of limb k is its integer part and rem its fraction
RECURSIVE Times100(_, _, _, _)
Times100(b, k, i, acc) ==
    IF i > k THEN acc
    ELSE LET t == b[i] * 100 + acc.carry IN
         Times100(b, k, i + 1,
                  [carry |-> t \div Base, rem |-> Append(acc.rem, t % Base)])

\* f"{bytes_value:.2f}" after k divisions, in hundredths: the value
\* rounded to two decimals, a tie going to the even neighbour
TwoDecimals(b, k) ==
    LET m     == Times100(b, k, 1, [carry |-> 0, rem |-> <<>>])
        floor == IntPart(b, k) * 100 + m.carry
        low   == \E i \in 1..(k - 1) : m.rem[i] # 0
        up    == /\ k > 0
                 /\ \/ m.rem[k] > Base \div 2
                    \/ m.rem[k] = Base \div 2 /\ low
                    \/ m.rem[k] = Base \div 2 /\ ~low /\ floor % 2 = 1
    IN  floor + (IF up THEN 1 ELSE 0)

\* lines 271-275: the loop over B, KB, MB, GB, entered with k divisions
\* done, and the TB return after it
RECURSIVE FormatLoop(_, _)
FormatLoop(b, k) ==
    IF k = 4 THEN [hundredths |-> TwoDecimals(b, 4), unit |-> Units[5]]
    ELSE IF LessThan1024(b, k)
    THEN [hundredths |-> TwoDecimals(b, k), unit |-> Units[k + 1]]
    ELSE FormatLoop(b, k + 1)

FormatBytes(b) == FormatLoop(b, 0)

NoString == [hundredths |-> 0, unit |-> "none"]

BytesInit ==
    /\ bpc = "call"
    /\ bytesIn \in ByteCounts
    /\ bytesOut = NoString

BytesIdle ==
    /\ bpc = "idle"
    /\ bytesIn = <<0, 0, 0, 0, 0>>
    /\ bytesOut = NoString

FormatBytesCall ==
    /\ bpc = "call"
    /\ bytesOut' = FormatBytes(bytesIn)
    /\ bpc' = "returned"
    /\ UNCHANGED bytesIn
    /\ BytesFrame

\* the two-decimal number displayed after k divisions is below 1024.00
\* (a magnitude of 1024 or more is never displayed below it)
DisplayedBelow1024(b, k) ==
    LessThan1024(b, k) /\ TwoDecimals(b, k) < Base * 100

UnitIndex(u) == CHOOSE k \in 0..4 : Units[k + 1] = u

\* C5 (as claimed): the unit is the smallest of B, KB, MB, GB, TB at
\* which the displayed two-decimal magnitude is below 1024, and TB for
\* every count of at least 1024 GB.
C5_SmallestDisplayedUnit ==
    bpc = "returned" =>
        IF ~LessThan1024(bytesIn, 3)
        THEN bytesOut.unit = "TB"
        ELSE /\ DisplayedBelow1024(bytesIn, UnitIndex(bytesOut.unit))
             /\ \A j \in 0..(UnitIndex(bytesOut.unit) - 1) :
                    ~DisplayedBelow1024(bytesIn, j)

\* the highest non-zero limb of a count (the first, for zero)
HighestLimb(b) ==
    IF \A i \in 1..5 : b[i] = 0 THEN 1
    ELSE CHOOSE i \in 1..5 : b[i] # 0 /\ \A j \in (i + 1)..5 : b[j] = 0

\* C5 (amended): the unit is the smallest at which the magnitude itself,
\* before rounding, is below 1024 - the position of the highest non-zero
\* limb - and TB for every count of at least 1024 GB; the number printed
\* is that magnitude rounded to two decimals, so it is at most 1024.00
\* below TB and reads 1024.00 for magnitudes from 1023.995 up.
C5_SmallestUnit ==
    bpc = "returned" =>
        LET k == UnitIndex(bytesOut.unit)
            f == IntPart(bytesIn, k) * 100
        IN  /\ k + 1 = HighestLimb(bytesIn)
            /\ f <= bytesOut.hundredths
            /\ bytesOut.hundredths <= f + 100
            /\ k < 4 => bytesOut.hundredths <= Base * 100
            /\ (k = 0 \/ \A i \in 1..k : bytesIn[i] = 0)
                  => bytesOut.hundredths = f

\* a count just under 1 MB was formatted as "1024.00KB"
C5_Witness ==
    /\ bpc = "returned"
    /\ bytesIn = <<1019, 1023, 0, 0, 0>>
    /\ bytesOut = [hundredths |-> 102400, unit |-> "KB"]

BytesNext == FormatBytesCall

-----------------------------------------------------------------------------
(* show_stats *)

(***************************************************************************)
(* A field of the snapshot is absent, a number, or "bad": a value such as  *)
(* None on which the arithmetic of show_stats raises.  A dictionary that   *)
(* is itself absent reads, through the {} defaults of stats.get, as one    *)
(* whose fields are all absent.                                            *)
(***************************************************************************)
Absent == [k |-> "absent", v |-> 0]

Bad == [k |-> "bad", v |-> 0]

Num(n) == [k |-> "num", v |-> n]

\* dict.get(key, default)
Get(field, default) == IF field.k = "absent" THEN Num(default) ELSE field

\* 1024 * 1024 of lines 144-145
MB == Base * Base

Quarter == MB \div 4

ZeroBytes == <<0, 0, 0, 0, 0>>

Iface(name, rx, tx) == [name |-> name, rx |-> rx, tx |-> tx]

\* the "networks" dictionary, as its entries in iteration order
NetSamples ==
    { [present |-> FALSE, ifaces |-> <<>>],
      [present |-> TRUE, ifaces |-> <<>>],
      [present |-> TRUE,
       ifaces |-> <<Iface("eth0", Num(<<1019, 1023, 0, 0, 0>>), Num(ZeroBytes))>>],
      [present |-> TRUE,
       ifaces |-> <<Iface("lo", Num(<<0, 2, 0, 0, 0>>), Absent)>>],
      [present |-> TRUE,
       ifaces |-> <<Iface("lo", Num(<<0, 2, 0, 0, 0>>), Absent),
                    Iface("eth0", Num(<<5, 0, 0, 0, 0>>), Num(<<0, 0, 1, 0, 0>>))>>],
      [present |-> TRUE, ifaces |-> <<Iface("eth0", Bad, Num(ZeroBytes))>>],
      [present |-> TRUE, ifaces |-> <<Iface("docker0", Absent, Absent)>>] }

Counters == {Absent, Bad} \cup {Num(n) : n \in 0..MaxCounter}

MemorySizes == {Absent, Bad} \cup {Num(m * Quarter) : m \in 0..MaxCounter}

Snapshots ==
    [res           : {"ok"},
     cpu_total     : Counters,
     precpu_total  : {Absent, Num(1)},
     system_cpu    : Counters,
     presystem_cpu : {Absent, Num(1)},
     percpu        : {Absent, Num(0), Num(2)},
     mem_usage     : MemorySizes,
     mem_limit     : MemorySizes,
     networks      : NetSamples]

\* container.stats() raised: there is no snapshot
NoSnapshot(res) ==
    [res |-> res, cpu_total |-> Absent, precpu_total |-> Absent,
     system_cpu |-> Absent, presystem_cpu |-> Absent, percpu |-> Absent,
     mem_usage |-> Absent, mem_limit |-> Absent,
     networks |-> [present |-> FALSE, ifaces |-> <<>>]]

\* num / den (den # 0) rounded to an integer, a tie going to the even
\* neighbour: what "%.1f" and "%.2f" do to a value scaled by 10 or 100
RoundHalfEven(num, den) ==
    LET n  == IF den < 0 THEN 0 - num ELSE num
        d  == IF den < 0 THEN 0 - den ELSE den
        a  == IF n < 0 THEN 0 - n ELSE n
        q  == a \div d
        r  == a % d
        m  == IF 2 * r > d \/ (2 * r = d /\ q % 2 = 1) THEN q + 1 ELSE q
    IN  IF n < 0 THEN 0 - m ELSE m

\* a division guarded by nothing
DenominatorUnchecked(d) == TRUE

\* lines 132 and 147: `if system_delta > 0`, `if memory_limit > 0`
PositiveDenominator(d) == d > 0

NA == [kind |-> "na"]

\* lines 119-139: the "CPU Usage" row
CpuRow(s) ==
    LET total     == Get(s.cpu_total, 0)
        pretotal  == Get(s.precpu_total, 0)
        system    == Get(s.system_cpu, 0)
        presystem == Get(s.presystem_cpu, 0)
    IN  IF "bad" \in {total.k, pretotal.k, system.k, presystem.k}
        THEN NA
        ELSE LET cpu_delta    == total.v - pretotal.v
                 system_delta == system.v - presystem.v
                 num_cpus     == IF s.percpu.k = "num" /\ s.percpu.v > 0
                                 THEN s.percpu.v ELSE 1
             IN  IF PositiveDenominator(system_delta)
                 THEN IF system_delta = 0
                      THEN NA    \* ZeroDivisionError, caught at line 138
                      ELSE [kind |-> "percent",
                            hundredths |->
                                RoundHalfEven(cpu_delta * 100 * num_cpus * 100,
                                              system_delta)]
                 ELSE [kind |-> "percent", hundredths |-> 0]

\* lines 141-157: the "Memory Usage" row, its three numbers in tenths
MemoryRow(s) ==
    LET usage == Get(s.mem_usage, 0)
        limit == Get(s.mem_limit, 0)
    IN  IF "bad" \in {usage.k, limit.k}
        THEN NA
        ELSE IF PositiveDenominator(limit.v)
        THEN IF limit.v = 0
             THEN NA    \* ZeroDivisionError, caught at line 156
             ELSE [kind |-> "memory",
                   usage |-> RoundHalfEven(usage.v * 10, MB),
                   limit |-> RoundHalfEven(limit.v * 10, MB),
                   percent |-> RoundHalfEven(usage.v * 1000, limit.v)]
        ELSE [kind |-> "memory",
              usage |-> RoundHalfEven(usage.v * 10, MB),
              limit |-> RoundHalfEven(limit.v * 10, MB),
              percent |-> 0]

\* lines 162-171: eth0 when the dictionary has it, else its first entry,
\* else {}
ChosenIface(net) ==
    IF \E i \in 1..Len(net.ifaces) : net.ifaces[i].name = "eth0"
    THEN net.ifaces[CHOOSE i \in 1..Len(net.ifaces) :
                        net.ifaces[i].name = "eth0"]
    ELSE IF net.ifaces # <<>> THEN net.ifaces[1]
    ELSE Iface("", Absent, Absent)

\* lines 159-179: the "Network I/O" row
NetworkRow(s) ==
    LET i  == ChosenIface(s.networks)
        rx == Get(i.rx, ZeroBytes)
        tx == Get(i.tx, ZeroBytes)
    IN  IF "bad" \in {rx.k, tx.k}
        THEN NA
        ELSE [kind |-> "network",
              rx |-> FormatBytes(rx.v), tx |-> FormatBytes(tx.v)]

NothingPrinted == [printed |-> "nothing"]

\* lines 111-193: the table of three rows, or, when container.stats()
\* raised, the error of line 186
StatsPrinted(s) ==
    IF s.res = "ok"
    THEN [printed |-> "table", cpu |-> CpuRow(s), memory |-> MemoryRow(s),
          network |-> NetworkRow(s)]
    ELSE [printed |-> "error"]

StatsInit ==
    /\ spc = "call"
    /\ statsIn \in Snapshots \cup {NoSnapshot(r) : r \in Failed}
    /\ statsOut = NothingPrinted

StatsIdle ==
    /\ spc = "idle"
    /\ statsIn = NoSnapshot("ok")
    /\ statsOut = NothingPrinted

ShowStats ==
    /\ spc = "call"
    /\ statsOut' = StatsPrinted(statsIn)
    /\ spc' = "returned"
    /\ UNCHANGED statsIn
    /\ StatsFrame

StatsNext == ShowStats

\* the snapshot's numbers are well-formed and a denominator is zero
WellFormedCpu(s) ==
    "bad" \notin {s.cpu_total.k, s.precpu_total.k, s.system_cpu.k,
                  s.presystem_cpu.k}

SystemDelta(s) == Get(s.system_cpu, 0).v - Get(s.presystem_cpu, 0).v

WellFormedMemory(s) == "bad" \notin {s.mem_usage.k, s.mem_limit.k}

ZeroCpuDenominator(s) ==
    s.res = "ok" /\ WellFormedCpu(s) /\ SystemDelta(s) = 0

ZeroMemoryDenominator(s) ==
    s.res = "ok" /\ WellFormedMemory(s) /\ Get(s.mem_limit, 0).v = 0

-----------------------------------------------------------------------------
(* git_helpers.py *)

\* the characters of git's output: a path character and the newline
OutChars == {"a", "nl"}

Texts == UNION {[1..n -> OutChars] : n \in 0..MaxOut}

\* str.splitlines(): the text cut at its newlines; a newline that ends the
\* text opens no further line
RECURSIVE SplitFrom(_, _)
SplitFrom(t, cur) ==
    IF t = <<>> THEN (IF cur = <<>> THEN <<>> ELSE <<cur>>)
    ELSE IF Head(t) = "nl" THEN <<cur>> \o SplitFrom(Tail(t), <<>>)
    ELSE SplitFrom(Tail(t), Append(cur, Head(t)))

SplitLines(t) == SplitFrom(t, <<>>)

\* one subprocess.check_output(['git', ...], text=True): the text on a
\* zero exit, CalledProcessError on a non-zero exit (not a repository),
\* FileNotFoundError when there is no git to start
Invocations ==
    {[k |-> "ok", text |-> t] : t \in Texts}
        \cup {[k |-> "exit_error", text |-> <<>>],
              [k |-> "not_started", text |-> <<>>]}

NoLists == [raised |-> FALSE, modified |-> <<>>, untracked |-> <<>>,
            staged |-> <<>>]

Raised == [raised |-> TRUE, modified |-> <<>>, untracked |-> <<>>,
           staged |-> <<>>]

\* lines 11-32: the three invocations in order; the first that does not
\* answer ends the function, by `return [], [], []` when it is the
\* CalledProcessError the except clause names and by the exception itself
\* otherwise
RECURSIVE StatusFrom(_, _, _)
StatusFrom(env, i, got) ==
    IF i > 3
    THEN [raised |-> FALSE, modified |-> got[1], untracked |-> got[2],
          staged |-> got[3]]
    ELSE IF env[i].k = "ok"
    THEN StatusFrom(env, i + 1, Append(got, SplitLines(env[i].text)))
    ELSE IF env[i].k = "exit_error" THEN NoLists
    ELSE Raised

GetGitStatus(env) == StatusFrom(env, 1, <<>>)

\* `bool(modified or untracked)`: the staged list forgotten
HasChangesIgnoringStaged(modified, untracked, staged) ==
    modified # <<>> \/ untracked # <<>>

\* line 40: bool(modified or untracked or staged); line 46 is its negation,
\* not any([modified, untracked, staged])
HasChanges(modified, untracked, staged) ==
    modified # <<>> \/ untracked # <<>> \/ staged # <<>>

Section(title, files) == [title |-> title, files |-> files]

\* lines 46-67: what print_git_status prints for the three lists
StatusReport(modified, untracked, staged) ==
    IF ~HasChanges(modified, untracked, staged)
    THEN <<Section("no_modifications", <<>>)>>
    ELSE <<Section("modifications_detected", <<>>)>>
         \o (IF modified # <<>> THEN <<Section("modified", modified)>>
             ELSE <<>>)
         \o (IF untracked # <<>> THEN <<Section("untracked", untracked)>>
             ELSE <<>>)
         \o (IF staged # <<>> THEN <<Section("staged", staged)>> ELSE <<>>)

NoValue == [k |-> "none"]

GitInit ==
    /\ gpc = "call"
    /\ gitFn \in {"get_git_status", "check_git_changes", "print_git_status"}
    /\ gitEnv \in [1..3 -> Invocations]
    /\ gitRet = NoValue
    /\ gitOut = <<>>

GitIdle ==
    /\ gpc = "idle"
    /\ gitFn = "none"
    /\ gitEnv = <<>>
    /\ gitRet = NoValue
    /\ gitOut = <<>>

\* lines 6-32
GetGitStatusCall ==
    /\ gpc = "call"
    /\ gitFn = "get_git_status"
    /\ LET st == GetGitStatus(gitEnv) IN
       /\ gpc' = IF st.raised THEN "raised" ELSE "returned"
       /\ gitRet' = IF st.raised THEN NoValue
                    ELSE [k |-> "lists", modified |-> st.modified,
                          untracked |-> st.untracked, staged |-> st.staged]
    /\ UNCHANGED <<gitFn, gitEnv, gitOut>>
    /\ GitFrame

\* lines 34-40
CheckGitChangesCall ==
    /\ gpc = "call"
    /\ gitFn = "check_git_changes"
    /\ LET st == GetGitStatus(gitEnv) IN
       /\ gpc' = IF st.raised THEN "raised" ELSE "returned"
       /\ gitRet' = IF st.raised THEN NoValue
                    ELSE [k |-> "bool",
                          v |-> HasChanges(st.modified, st.untracked,
                                           st.staged)]
    /\ UNCHANGED <<gitFn, gitEnv, gitOut>>
    /\ GitFrame

\* lines 42-67
PrintGitStatusCall ==
    /\ gpc = "call"
    /\ gitFn = "print_git_status"
    /\ LET st == GetGitStatus(gitEnv) IN
       /\ gpc' = IF st.raised THEN "raised" ELSE "returned"
       /\ gitRet' = IF st.raised THEN NoValue
                    ELSE [k |-> "bool",
                          v |-> HasChanges(st.modified, st.untracked,
                                           st.staged)]
       /\ gitOut' = IF st.raised THEN <<>>
                    ELSE StatusReport(st.modified, st.untracked, st.staged)
    /\ UNCHANGED <<gitFn, gitEnv>>
    /\ GitFrame

GitNext ==
    \/ GetGitStatusCall
    \/ CheckGitChangesCall
    \/ PrintGitStatusCall

\* some invocation that is reached does not answer
InvocationFails(env) ==
    \E i \in 1..3 : env[i].k # "ok" /\ \A j \in 1..(i - 1) : env[j].k = "ok"

\* C6: on any invocation failure, at whichever of the three invocations
\* and whether git exits with an error or cannot be started,
\* get_git_status returns three empty lists and does not raise.
C6_FailureGivesEmptyLists ==
    (gitFn = "get_git_status" /\ gpc # "call" /\ InvocationFails(gitEnv)) =>
        /\ gpc = "returned"
        /\ gitRet = [k |-> "lists", modified |-> <<>>, untracked |-> <<>>,
                     staged |-> <<>>]

\* the lists git reports when all three invocations answer, and the empty
\* lists of the recovered failure
ListsOf(env) ==
    IF \A i \in 1..3 : env[i].k = "ok"
    THEN [i \in 1..3 |-> SplitLines(env[i].text)]
    ELSE [i \in 1..3 |-> <<>>]

Titles == <<"modified", "untracked", "staged">>

\* C7: for all three lists, check_git_changes returns true exactly when
\* one of them is non-empty, and print_git_status returns the same value:
\* with all three empty it prints only the "no modifications" message,
\* otherwise the heading and then, in order, one section for each
\* non-empty list, holding that list, and none for an empty one.
C7_HasChangesIsOr ==
    (gpc = "returned" /\ gitFn \in {"check_git_changes", "print_git_status"}) =>
        LET lists == ListsOf(gitEnv)
            any   == \E i \in 1..3 : lists[i] # <<>>
            secs  == {j \in 2..Len(gitOut) : TRUE}
        IN  /\ gitRet = [k |-> "bool", v |-> any]
            /\ gitFn = "check_git_changes" => gitOut = <<>>
            /\ (gitFn = "print_git_status" /\ ~any) =>
                   gitOut = <<Section("no_modifications", <<>>)>>
            /\ (gitFn = "print_git_status" /\ any) =>
                   /\ gitOut[1] = Section("modifications_detected", <<>>)
                   /\ \A i \in 1..3 :
                          IF lists[i] = <<>>
                          THEN \A j \in secs : gitOut[j].title # Titles[i]
                          ELSE \E j \in secs :
                                   gitOut[j] = Section(Titles[i], lists[i])
                   /\ Cardinality(secs)
                          = Cardinality({i \in 1..3 : lists[i] # <<>>})
                   /\ \A j \in secs : \A h \in secs :
                          (j < h) =>
                              (CHOOSE i \in 1..3 : Titles[i] = gitOut[j].title)
                                < (CHOOSE i \in 1..3 : Titles[i] = gitOut[h].title)

\* only the staged list is non-empty: print_git_status returns true and
\* prints the staged section alone
C7_Witness ==
    /\ gpc = "returned"
    /\ gitFn = "print_git_status"
    /\ \A i \in 1..3 : gitEnv[i].k = "ok"
    /\ SplitLines(gitEnv[1].text) = <<>>
    /\ SplitLines(gitEnv[2].text) = <<>>
    /\ SplitLines(gitEnv[3].text) = << <<"a">>, <<"a">> >>
    /\ gitRet = [k |-> "bool", v |-> TRUE]
    /\ Len(gitOut) = 2
    /\ gitOut[2].title = "staged"

-----------------------------------------------------------------------------
(* show_container_info *)

(***************************************************************************)
(* container.attrs, as far as show_container_info reads it.  A key is      *)
(* absent or holds a value; a string value may be empty; PortBindings and  *)
(* the binding list of a port may be null (None).                          *)
(***************************************************************************)
NoStr == [k |-> "absent", v |-> ""]

Str(x) == [k |-> "str", v |-> x]

\* NetworkSettings: absent, or a dictionary with IPAddress and Networks,
\* Networks being absent or the networks in order, each with its IPAddress
NetworkSettingsSamples ==
    {[k |-> "absent", ip |-> NoStr, networks |-> [k |-> "absent", nets |-> <<>>]]}
    \cup
    [k        : {"dict"},
     ip       : {NoStr, Str(""), Str("172.17.0.2")},
     networks : {[k |-> "absent", nets |-> <<>>],
                 [k |-> "dict", nets |-> <<>>],
                 [k |-> "dict", nets |-> <<NoStr>>],
                 [k |-> "dict", nets |-> <<Str("")>>],
                 [k |-> "dict", nets |-> <<Str("10.0.0.5")>>],
                 [k |-> "dict", nets |-> <<Str(""), Str("10.0.0.5")>>]}]

\* one entry of PortBindings: the container port and its list of host
\* ports, which may be null or empty; HostPort may be missing in a binding
Port(p, k, hosts) == [port |-> p, k |-> k, hosts |-> hosts]

\* HostConfig: absent, or a dictionary whose PortBindings is absent, null,
\* or the entries in order
HostConfigSamples ==
    {[k |-> "absent", pb |-> [k |-> "absent", ports |-> <<>>]],
     [k |-> "dict", pb |-> [k |-> "absent", ports |-> <<>>]],
     [k |-> "dict", pb |-> [k |-> "null", ports |-> <<>>]],
     [k |-> "dict", pb |-> [k |-> "dict", ports |-> <<>>]],
     [k |-> "dict", pb |-> [k |-> "dict",
         ports |-> <<Port("80/tcp", "list", <<Str("8080")>>)>>]],
     [k |-> "dict", pb |-> [k |-> "dict",
         ports |-> <<Port("80/tcp", "null", <<>>)>>]],
     [k |-> "dict", pb |-> [k |-> "dict",
         ports |-> <<Port("80/tcp", "list", <<>>),
                     Port("443/tcp", "list", <<Str("8443"), Str("9443")>>)>>]],
     [k |-> "dict", pb |-> [k |-> "dict",
         ports |-> <<Port("80/tcp", "list", <<NoStr>>)>>]]}

\* Created: absent, an ISO-8601 string, a string that is no date, or an
\* integer epoch
CreatedSamples == {"absent", "iso", "not_a_date", "epoch"}

Attrs ==
    [core     : BOOLEAN,    \* Id, Name, Config.Image, State.Status all there
     created  : CreatedSamples,
     network  : NetworkSettingsSamples,
     host     : HostConfigSamples]

\* lines 222-235: the "Created" row
CreatedRow(c) ==
    CASE c = "absent" -> "N/A"
      [] c = "not_a_date" -> "Invalid date format"
      [] OTHER -> "YYYY-mm-dd HH:MM:SS"

\* lines 238-244: the "IP Address" row
IpRow(n) ==
    LET ip0 == IF n.ip.k = "absent" THEN "" ELSE n.ip.v
        ip1 == IF ip0 = "" /\ n.networks.k = "dict" /\ n.networks.nets # <<>>
               THEN (IF n.networks.nets[1].k = "absent" THEN "N/A"
                     ELSE n.networks.nets[1].v)
               ELSE ip0
    IN  IF ip1 = "" THEN "N/A" ELSE ip1

\* line 250: info['HostConfig']['PortBindings'] raises KeyError when
\* either key is missing
PortBindingsRaises(h) == h.k = "absent" \/ h.pb.k = "absent"

\* lines 260-262: the rows of the port table; a binding without HostPort
\* raises KeyError
RECURSIVE PortRows(_)
PortRows(ports) ==
    IF ports = <<>> THEN [raised |-> FALSE, rows |-> <<>>]
    ELSE LET p    == Head(ports)
             rest == PortRows(Tail(ports))
         IN  IF p.k = "list" /\ p.hosts # <<>>
             THEN IF p.hosts[1].k = "absent"
                  THEN [raised |-> TRUE, rows |-> <<>>]
                  ELSE [raised |-> rest.raised,
                        rows |-> <<[port |-> p.port, host |-> p.hosts[1].v]>>
                                 \o rest.rows]
             ELSE rest

NothingShown ==
    [raised |-> FALSE, table |-> FALSE, created |-> "", ip |-> "",
     ports |-> "none", rows |-> <<>>]

\* lines 208-266: what is on the screen when show_container_info returns
\* or raises
InfoShown(a) ==
    IF ~a.core
    THEN [NothingShown EXCEPT !.raised = TRUE]
    ELSE LET main == [NothingShown EXCEPT !.table = TRUE,
                                         !.created = CreatedRow(a.created),
                                         !.ip = IpRow(a.network)]
         IN  IF PortBindingsRaises(a.host)
             THEN [main EXCEPT !.raised = TRUE]
             ELSE IF a.host.pb.k = "null" \/ a.host.pb.ports = <<>>
             THEN [main EXCEPT !.ports = "omitted"]
             ELSE LET r == PortRows(a.host.pb.ports) IN
                  IF r.raised THEN [main EXCEPT !.raised = TRUE]
                  ELSE [main EXCEPT !.ports = "table", !.rows = r.rows]

InfoInit ==
    /\ ipc = "call"
    /\ attrs \in Attrs
    /\ infoOut = NothingShown

InfoIdle ==
    /\ ipc = "idle"
    /\ attrs = [core |-> TRUE, created |-> "absent",
                network |-> [k |-> "absent", ip |-> NoStr,
                             networks |-> [k |-> "absent", nets |-> <<>>]],
                host |-> [k |-> "absent",
                          pb |-> [k |-> "absent", ports |-> <<>>]]]
    /\ infoOut = NothingShown

ShowContainerInfo ==
    /\ ipc = "call"
    /\ infoOut' = InfoShown(attrs)
    /\ ipc' = IF InfoShown(attrs).raised THEN "raised" ELSE "returned"
    /\ UNCHANGED attrs
    /\ InfoFrame

InfoNext == ShowContainerInfo

\* the metadata holds no IP address anywhere show_container_info looks
NoIpAddress(n) ==
    /\ n.ip.k = "absent" \/ n.ip.v = ""
    /\ \/ n.networks.k = "absent"
       \/ n.networks.nets = <<>>
       \/ n.networks.nets[1].k = "absent"
       \/ n.networks.nets[1].v = ""

\* HostConfig or PortBindings is absent, null or empty
NoPortBindings(h) ==
    h.k = "absent" \/ h.pb.k \in {"absent", "null"} \/ h.pb.ports = <<>>

\* C8: with the identity fields present, a missing or empty
\* NetworkSettings, IPAddress, Networks or HostConfig/PortBindings does
\* not make the detail view raise: it completes, shows "N/A" for an IP
\* address it cannot find, and omits the port table when there are no
\* port bindings.
C8_MissingFieldsTolerated ==
    (ipc # "call" /\ attrs.core
        /\ (NoIpAddress(attrs.network) \/ NoPortBindings(attrs.host))
        /\ (NoPortBindings(attrs.host)
              \/ ~PortRows(attrs.host.pb.ports).raised)) =>
        /\ ipc = "returned"
        /\ ~infoOut.raised
        /\ NoIpAddress(attrs.network) => infoOut.ip = "N/A"
        /\ NoPortBindings(attrs.host) => infoOut.ports = "omitted"

-----------------------------------------------------------------------------
(* The specifications *)

\* each specification runs one machine and holds the others idle
InitSession == SessionInit /\ BytesIdle /\ StatsIdle /\ GitIdle /\ InfoIdle

SpecSession == InitSession /\ [][SessionNext]_vars

InitBytes == BytesInit /\ SessionIdle /\ StatsIdle /\ GitIdle /\ InfoIdle

SpecBytes == InitBytes /\ [][BytesNext]_vars

InitStats == StatsInit /\ SessionIdle /\ BytesIdle /\ GitIdle /\ InfoIdle

SpecStats == InitStats /\ [][StatsNext]_vars

InitGit == GitInit /\ SessionIdle /\ BytesIdle /\ StatsIdle /\ InfoIdle

SpecGit == InitGit /\ [][GitNext]_vars

InitInfo == InfoInit /\ SessionIdle /\ BytesIdle /\ StatsIdle /\ GitIdle

SpecInfo == InitInfo /\ [][InfoNext]_vars

=============================================================================
